---- MODULE Spec2Model ----
(***************************************************************************)
(* Credential pool, request executor, remote workflow client and job       *)
(* scheduler of the batch audio transcription tool (key_manager.py and     *)
(* 批量处理.py).                                                            *)
(***************************************************************************)
EXTENDS Integers, Sequences, FiniteSets, TLC

(***************************************************************************)
(* Bounds of the model.                                                    *)
(***************************************************************************)
MaxKeys == 2        \* at most this many API_KEY_* entries in the environment
NumJobs == 2        \* audio files found in the folder
MaxWorkers == 2     \* largest max_workers tried in parallel mode
NumSessions == 1    \* callers of get_key_for_session
PollLatency == 65   \* seconds one status request takes (on top of the sleep)
MaxRecords == 4     \* records written to failed_files/ (saved or merged)
MaxChars == 6       \* characters of a subtitle file
MaxRuns == 2        \* calls of add_extra_newlines on one file

Range(q) == {q[i] : i \in DOMAIN q}

(***************************************************************************)
(* Values.                                                                 *)
(***************************************************************************)
\* Python's None (no key obtained, no error, no response yet).
None == "<None>"

\* The value each API_KEY_i entry can carry when it is not left empty.
KeyNames == <<"key-AAAA", "key-BBBB", "key-CCCC", "key-DDDD">>

\* bool(api_key): None and the empty string are both falsy.
Truthy(k) == k # None /\ k # ""

(***************************************************************************)
(* queue.Queue: FIFO.                                                      *)
(***************************************************************************)
QueuePut(q, k) == Append(q, k)

QueueFrontMut(q) == q[Len(q)]
QueueFront(q) == Head(q)

QueueRestMut(q) == q
QueueRest(q) == Tail(q)

(***************************************************************************)
(* execute_request: classification of one attempt and the backoff.         *)
(***************************************************************************)
max_attemptsMut == 3 + 1
max_attempts == 3

\* What one requests.request call can end in: a response with a status code,
\* or a network-level exception raised by requests.
NetErrors == {"ConnectionError", "Timeout"}
Statuses == {200, 429, 500, 503, 400, 403, 404, 401, 502}
Response(st) == [status_code |-> st]
NetError(e) == [exception |-> e]
Outcomes == {Response(st) : st \in Statuses} \cup {NetError(e) : e \in NetErrors}
IsResponse(o) == "status_code" \in DOMAIN o

\* response.ok: no 4xx/5xx status.
ResponseOkMut(st) == FALSE
ResponseOk(st) == st < 400

TransientStatuses == {429, 500, 503}
PermanentStatuses == {400, 403, 404}

\* response.raise_for_status() raises requests.exceptions.HTTPError for 4xx/5xx.
RaiseForStatus(st) == IF st >= 400 /\ st < 600 THEN "HTTPError" ELSE None

\* except requests.exceptions.RequestException: HTTPError, ConnectionError and
\* Timeout are all subclasses of RequestException.
IsRequestExceptionMut(e) == e = "HTTPError"
IsRequestException(e) == e \in NetErrors \cup {"HTTPError"}

\* headers['X-goog-api-key'] = api_key: the header every attempt sends.
XGoogApiKeyMut(api_key) == KeyNames[1]
XGoogApiKey(api_key) == api_key

\* time.sleep(2 * (attempt + 1)), attempt counted from 0.
BackoffMut(attempt) == 2
Backoff(attempt) == 2 * (attempt + 1)

\* The body of one loop iteration, as the kind of exit it takes:
\* "return", "continue" (after a sleep) or "propagate" (exception leaves).
AttemptExit(o) ==
    IF ~IsResponse(o) THEN
        IF IsRequestException(o.exception) THEN "continue" ELSE "propagate"
    ELSE IF ResponseOk(o.status_code) THEN "return"
    ELSE IF o.status_code \in TransientStatuses THEN "continue"
    ELSE IF o.status_code \in PermanentStatuses THEN
        \* response.raise_for_status() inside the try block
        IF IsRequestException(RaiseForStatus(o.status_code)) THEN "continue"
        ELSE "propagate"
    ELSE IF IsRequestException(RaiseForStatus(o.status_code)) THEN "continue"
    ELSE "propagate"

\* The exception an iteration ends with (kept in last_exception when the
\* iteration continues).
AttemptException(o) ==
    IF ~IsResponse(o) THEN o.exception
    ELSE IF o.status_code \in TransientStatuses THEN "Exception(transient)"
    ELSE RaiseForStatus(o.status_code)

(***************************************************************************)
(* HTTPGeminiClient: what the remote service can answer to each step.      *)
(***************************************************************************)
max_wait == 300         \* wait_for_file_processing: ceiling in seconds
poll_sleep == 10        \* time.sleep(10) between two status checks
job_pause == 5          \* time.sleep(5) between two files, sequential mode

\* upload_file: status 200 with the file handle, or anything else (another
\* status, an exception of open() or requests.post): both raise inside the try.
UploadAnswers == {"200", "failed"}
\* wait_for_file_processing: status 200 with a state, another status, or an
\* exception raised by requests.get (connection error, timeout of 30 s).
PollAnswers == {"ACTIVE", "FAILED", "PROCESSING", "non200", "exception"}
\* transcribe_audio: status 200 with a first candidate carrying text (possibly
\* empty), status 200 without candidates (with or without a block reason in
\* promptFeedback), or another status.
GenAnswers == {"text", "empty_text", "no_candidates", "blocked", "non200"}

\* The remote API requires a credential with every call: a request whose
\* X-goog-api-key header is empty is never answered with status 200.
UploadAnswersFor(k) == IF k = "" THEN {"failed"} ELSE UploadAnswers
PollAnswersFor(k) == IF k = "" THEN {"non200", "exception"} ELSE PollAnswers
GenAnswersFor(k) == IF k = "" THEN {"non200"} ELSE GenAnswers

\* str(e) of the exception each step raises, in English: "文件上传失败: ...",
\* "文件处理失败", "文件处理超时", "转录失败: ...", "转录返回空结果".
UploadError(a) == IF a = "200" THEN None ELSE "upload failed"
PollError(a) ==
    IF a = "FAILED" THEN "file processing failed"
    ELSE IF a = "exception" THEN "status request raised"
    ELSE None

\* How one iteration of the while loop of wait_for_file_processing ends:
\* "return" (ACTIVE), "raise" (FAILED, or the exception of requests.get
\* leaving the loop), "sleep" (any other state, any other status).
PollExitMut(a) == "return"
PollExit(a) ==
    IF a = "ACTIVE" THEN "return"
    ELSE IF a \in {"FAILED", "exception"} THEN "raise"
    ELSE "sleep"
GenError(a) ==
    IF a \in {"text", "empty_text"} THEN None
    ELSE IF a = "non200" THEN "transcription failed"
    ELSE "transcription returned empty result"

Workers == 1..MaxWorkers
Jobs == 1..NumJobs
Sessions == 1..NumSessions

\* The lists of credentials _load_keys_from_env can load: no API_KEY_* entry
\* at all, or entries of which entry i is either left empty in .env or
\* carries its own value.
KeyLists ==
    UNION { { f \in [1..n -> {""} \cup {KeyNames[i] : i \in 1..n}] :
                \A i \in 1..n : f[i] \in {"", KeyNames[i]} } : n \in 0..MaxKeys }

\* if not keys: ... sys.exit(1): importing key_manager ends the process
\* before self.key_queue is created and before any importer runs.
StartMut(ks) == "running"
Start(ks) == IF ks = <<>> THEN "exited" ELSE "running"

\* What a thread has observed of the job it runs (or ran last): the key each
\* step sent, the status checks made, what generateContent answered, and what
\* process_single_file returned.
NewRun == [job |-> 0, upload_key |-> None, poll_key |-> None, gen_key |-> None,
           polls |-> 0, last_poll |-> None, gen_answer |-> None,
           result |-> "none", error |-> None, output |-> None]

VARIABLES
    \* ---- execute_request (one call) ----
    ex_pc,          \* "idle", "loop", "returned", "raised"
    ex_key,         \* the api_key argument
    ex_attempt,     \* loop variable attempt (0-based)
    ex_hist,        \* outcome of every requests.request call made, in order
    ex_sent,        \* X-goog-api-key header of every call made, in order
    ex_sleeps,      \* every time.sleep argument, in order
    ex_last,        \* last_exception
    ex_error,       \* kind of the exception the call raised, or None
    \* ---- ApiKeyManager ----
    keys,           \* the credentials loaded at start, in load order
    key_queue,      \* self.key_queue / api_key_queue
    gets,           \* number of key_queue.get calls that have returned a key
    \* ---- sessions: callers of get_key_for_session ----
    s_pc,           \* per session: "out", "body", "ended"
    s_key,          \* per session: local api_key
    s_got,          \* per session: number of key_queue.get that returned
    s_put,          \* per session: number of key_queue.put made
    \* ---- scheduler ----
    parallel,       \* process_folder(parallel=...)
    max_workers,    \* ThreadPoolExecutor(max_workers=...)
    retry,          \* the run is retry_failed_files over a failure record
    exists,         \* per job: file_path.exists() (the retry pass tests it)
    next_task,      \* next job no thread has started yet
    w_pc,           \* per worker thread: position in process_single_file
    w_run,          \* per worker thread: the job it runs or ran last (NewRun)
    w_key,          \* per worker thread: local api_key of the current step
    w_elapsed,      \* per worker thread: time.time() - start_time
    jobs,           \* per job: "none", "success" or "failure"
    done,           \* futures completed and not yet seen by as_completed
    results,        \* results, in the order they were collected
    pauses,         \* inter-file sleeps made (sequential mode)
    ledgers,        \* every failure record save_failed_files_info wrote
    retval,         \* what the run returned ("True", "False", "None"): "none"
                    \* until it returns
    main_pc         \* "running", "done"; "exited" after sys.exit(1) at import;
                    \* "raised" when an exception left the run

\* The two file tools, which run as programs of their own.
VARIABLES
    failed_dir,     \* the records in the directory failed_files/
    clock,          \* datetime.now(), which stamps the name of each record
    merge_log,      \* what the last merge_failed_files read and did
    srt_file,       \* the characters of the subtitle file
    srt_prev,       \* its characters before the last add_extra_newlines
    srt_runs        \* number of add_extra_newlines calls so far

toolvars == <<failed_dir, clock, merge_log, srt_file, srt_prev, srt_runs>>

exvars == <<ex_pc, ex_key, ex_attempt, ex_hist, ex_sent, ex_sleeps, ex_last, ex_error>>
poolvars == <<keys, key_queue, gets>>
sessvars == <<s_pc, s_key, s_got, s_put>>
schedvars == <<parallel, max_workers, retry, exists, next_task, w_pc, w_run, w_key, w_elapsed,
               jobs, done, results, pauses, ledgers, retval, main_pc>>

vars == <<exvars, poolvars, sessvars, schedvars, toolvars>>

\* ApiKeyManager._load_keys_from_env: every loaded key is put on the queue.
RECURSIVE LoadKeys(_, _)
LoadKeys(q, ks) == IF ks = <<>> THEN q ELSE LoadKeys(QueuePut(q, Head(ks)), Tail(ks))

ExecInit ==
    /\ ex_pc = "idle"
    /\ ex_key = None
    /\ ex_attempt = 0
    /\ ex_hist = <<>>
    /\ ex_sent = <<>>
    /\ ex_sleeps = <<>>
    /\ ex_last = None
    /\ ex_error = None

PoolInit ==
    /\ keys \in KeyLists
    /\ key_queue = LoadKeys(<<>>, keys)
    /\ gets = 0

SessInit ==
    /\ s_pc = [s \in Sessions |-> "out"]
    /\ s_key = [s \in Sessions |-> None]
    /\ s_got = [s \in Sessions |-> 0]
    /\ s_put = [s \in Sessions |-> 0]

SchedInit ==
    /\ retry \in BOOLEAN
    /\ parallel \in (IF retry THEN {FALSE} ELSE BOOLEAN)
    /\ max_workers \in (IF parallel THEN 1..MaxWorkers ELSE {1})
    /\ exists \in (IF retry THEN [Jobs -> BOOLEAN] ELSE {[j \in Jobs |-> TRUE]})
    /\ next_task = 1
    /\ w_pc = [w \in Workers |-> "idle"]
    /\ w_run = [w \in Workers |-> NewRun]
    /\ w_key = [w \in Workers |-> None]
    /\ w_elapsed = [w \in Workers |-> 0]
    /\ jobs = [j \in Jobs |-> "none"]
    /\ done = {}
    /\ results = <<>>
    /\ pauses = 0
    /\ ledgers = <<>>
    /\ retval = "none"
    /\ main_pc = Start(keys)

\* No merge has run yet.
NoMerge == [done |-> FALSE, deleted |-> FALSE, paths |-> {}]

\* failed_files/ does not exist yet.
LedgerInit ==
    /\ failed_dir = {}
    /\ clock = 1
    /\ merge_log = NoMerge

\* No subtitle file is being reformatted.
SrtIdle ==
    /\ srt_file = <<>>
    /\ srt_prev = <<>>
    /\ srt_runs = 0

Init == ExecInit /\ PoolInit /\ SessInit /\ SchedInit /\ LedgerInit /\ SrtIdle

\* api_manager = ApiKeyManager() returned: the module object exists and its
\* methods can be called.
ManagerExists == main_pc # "exited"

\* Entry of execute_request with the api_key argument k.
ExecCall(k) ==
    /\ ManagerExists
    /\ ex_pc = "idle"
    /\ ex_key' = k
    /\ IF ~Truthy(k)
         THEN /\ ex_pc' = "raised"
              /\ ex_error' = "ValueError"
         ELSE /\ ex_pc' = "loop"
              /\ ex_error' = ex_error
    /\ UNCHANGED <<ex_attempt, ex_hist, ex_sent, ex_sleeps, ex_last>>
    /\ UNCHANGED <<poolvars, sessvars, schedvars, toolvars>>

\* One iteration of `for attempt in range(max_attempts)`, the server (or the
\* network) answering o.
ExecAttempt(o) ==
    /\ ex_pc = "loop"
    /\ ex_attempt < max_attempts
    /\ ex_hist' = Append(ex_hist, o)
    /\ ex_sent' = Append(ex_sent, XGoogApiKey(ex_key))
    /\ LET exit == AttemptExit(o) IN
         CASE exit = "return" ->
                /\ ex_pc' = "returned"
                /\ UNCHANGED <<ex_attempt, ex_sleeps, ex_last, ex_error>>
           [] exit = "continue" ->
                /\ ex_last' = AttemptException(o)
                /\ ex_sleeps' = Append(ex_sleeps, Backoff(ex_attempt))
                /\ ex_attempt' = ex_attempt + 1
                /\ UNCHANGED <<ex_pc, ex_error>>
           [] OTHER ->
                /\ ex_pc' = "raised"
                /\ ex_error' = AttemptException(o)
                /\ UNCHANGED <<ex_attempt, ex_sleeps, ex_last>>
    /\ UNCHANGED ex_key
    /\ UNCHANGED <<poolvars, sessvars, schedvars, toolvars>>

\* The loop ran out: raise Exception(... 最后错误: last_exception).
ExecExhausted ==
    /\ ex_pc = "loop"
    /\ ex_attempt >= max_attempts
    /\ ex_pc' = "raised"
    /\ ex_error' = "Exception(exhausted)"
    /\ UNCHANGED <<ex_key, ex_attempt, ex_hist, ex_sent, ex_sleeps, ex_last>>
    /\ UNCHANGED <<poolvars, sessvars, schedvars, toolvars>>

ExecNext ==
    \/ \E k \in {None} \cup {keys[i] : i \in DOMAIN keys} : ExecCall(k)
    \/ \E o \in Outcomes : ExecAttempt(o)
    \/ ExecExhausted

SpecExec == Init /\ [][ExecNext]_vars

(***************************************************************************)
(* get_key_for_session (context manager).                                  *)
(***************************************************************************)
\* The timeout argument of each key_queue.get, as a sequence: <<t>> for
\* get(timeout=t), <<>> for get(), which waits without limit.
\* get_key_for_session: self.key_queue.get(timeout=self.initial_key_count * 5)
SessionGetTimeout == <<Len(keys) * 5>>
\* upload_file, wait_for_file_processing, transcribe_audio: api_key_queue.get()
StepGetTimeout == <<>>

\* api_key = self.key_queue.get(timeout=...) returned a key; the body runs.
SessionEnter(s) ==
    /\ ManagerExists
    /\ s_pc[s] = "out"
    /\ key_queue # <<>>
    /\ s_key' = [s_key EXCEPT ![s] = QueueFront(key_queue)]
    /\ key_queue' = QueueRest(key_queue)
    /\ gets' = gets + 1
    /\ s_got' = [s_got EXCEPT ![s] = @ + 1]
    /\ s_pc' = [s_pc EXCEPT ![s] = "body"]
    /\ UNCHANGED <<keys, s_put, exvars, toolvars, schedvars>>

\* The queue stayed empty for initial_key_count * 5 seconds: get raises
\* queue.Empty, api_key is still None and the finally block puts nothing.
SessionTimeout(s) ==
    /\ ManagerExists
    /\ s_pc[s] = "out"
    /\ key_queue = <<>>
    /\ s_pc' = [s_pc EXCEPT ![s] = "ended"]
    /\ UNCHANGED <<poolvars, s_key, s_got, s_put, exvars, toolvars, schedvars>>

\* The body returns or raises; finally: if api_key: self.key_queue.put(api_key).
SessionExit(s) ==
    /\ s_pc[s] = "body"
    /\ IF Truthy(s_key[s])
         THEN /\ key_queue' = QueuePut(key_queue, s_key[s])
              /\ s_put' = [s_put EXCEPT ![s] = @ + 1]
         ELSE UNCHANGED <<key_queue, s_put>>
    /\ s_pc' = [s_pc EXCEPT ![s] = "ended"]
    /\ UNCHANGED <<keys, gets, s_key, s_got, exvars, toolvars, schedvars>>

(***************************************************************************)
(* process_single_file and the three steps of HTTPGeminiClient.            *)
(***************************************************************************)
\* finally: if api_key: api_key_queue.put(api_key)
ReleaseMut(q, k) == q
Release(q, k) == IF Truthy(k) THEN QueuePut(q, k) ELSE q

\* Sequential mode, after file i: if i < len(audio_files): time.sleep(5).
PauseAfterMut(i) == TRUE
PauseAfter(i) == i < NumJobs

\* process_single_file returns for the job of thread w, whose record becomes
\* r.  Parallel mode: the future completes and the thread is free for the next
\* task.  Sequential mode: the loop body counts the result and sleeps before
\* the next file, if any.
EndJob(w, r) ==
    /\ w_run' = [w_run EXCEPT ![w] = r]
    /\ jobs' = [jobs EXCEPT ![r.job] = r.result]
    /\ w_pc' = [w_pc EXCEPT ![w] = "idle"]
    /\ IF parallel
         THEN /\ done' = done \cup {r.job}
              /\ UNCHANGED <<results, pauses>>
         ELSE /\ results' = Append(results, r.job)
              /\ pauses' = IF PauseAfter(r.job) THEN pauses + 1 ELSE pauses
              /\ done' = done

\* return False, str(e)
Failed(r, err) == [r EXCEPT !.result = "failure", !.error = err]
\* the text is written to the output file; return True, None
Succeeded(r, text) == [r EXCEPT !.result = "success", !.output = text]

\* A call of process_single_file on thread w for job j starts with locals of
\* its own: nothing of the call the thread made before is visible to it.
StartRunMut(w, j) == [w_run[w] EXCEPT !.job = j, !.result = "none", !.error = None]
StartRun(w, j) == [NewRun EXCEPT !.job = j]

\* ThreadPoolExecutor(max_workers): thread w exists and runs no task; of the
\* free threads, which one takes the task makes no difference, so the first does.
FreeThreadMut(w) == w <= max_workers
FreeThread(w) ==
    /\ w <= max_workers
    /\ w_pc[w] = "idle"
    /\ \A v \in Workers : v < w => w_pc[v] # "idle"

\* A free thread takes the next task: the next submitted future in parallel
\* mode, the next iteration of the for loop in sequential mode.
TakeTask(w) ==
    /\ ~retry
    /\ main_pc = "running"
    /\ FreeThread(w)
    /\ next_task <= NumJobs
    /\ w_run' = [w_run EXCEPT ![w] = StartRun(w, next_task)]
    /\ w_pc' = [w_pc EXCEPT ![w] = "upload_get"]
    /\ next_task' = next_task + 1
    /\ UNCHANGED <<parallel, max_workers, retry, exists, w_key, w_elapsed, jobs, done, results,
                   pauses, ledgers, retval, main_pc, exvars, toolvars, poolvars, sessvars>>

(***************************************************************************)
(* retry_failed_files: the loop over the entries of a failure record.      *)
(***************************************************************************)
\* def process_single_file(client, audio_file_path, output_path=None)
process_single_file_params == {"client", "audio_file_path", "output_path"}
\* process_single_file(client, file_path, srt_file_path=srt_file_path)
retry_call_keywords == {"srt_file_path"}
\* A call binds when every keyword it passes names a parameter; otherwise
\* Python raises TypeError before the body of the function starts.
Binds(keywords, params) == keywords \subseteq params

\* if not file_path.exists(): still_failed.append(...); continue
RetrySkip ==
    /\ retry
    /\ main_pc = "running"
    /\ \A w \in Workers : w_pc[w] = "idle"
    /\ next_task <= NumJobs
    /\ ~exists[next_task]
    /\ jobs' = [jobs EXCEPT ![next_task] = "failure"]
    /\ results' = Append(results, next_task)
    /\ next_task' = next_task + 1
    /\ UNCHANGED <<parallel, max_workers, retry, exists, w_pc, w_run, w_key, w_elapsed,
                   done, pauses, ledgers, retval, main_pc, exvars, toolvars, poolvars, sessvars>>

\* The file exists: process_single_file is called with the keyword
\* srt_file_path.  The TypeError of a call that does not bind is raised in
\* the loop body, outside any try, and leaves retry_failed_files.
RetryTake(w) ==
    /\ retry
    /\ main_pc = "running"
    /\ FreeThread(w)
    /\ next_task <= NumJobs
    /\ exists[next_task]
    /\ IF Binds(retry_call_keywords, process_single_file_params)
         THEN /\ w_run' = [w_run EXCEPT ![w] = StartRun(w, next_task)]
              /\ w_pc' = [w_pc EXCEPT ![w] = "upload_get"]
              /\ next_task' = next_task + 1
              /\ UNCHANGED main_pc
         ELSE /\ main_pc' = "raised"
              /\ UNCHANGED <<w_run, w_pc, next_task>>
    /\ UNCHANGED <<parallel, max_workers, retry, exists, w_key, w_elapsed, jobs, done, results,
                   pauses, ledgers, retval, exvars, toolvars, poolvars, sessvars>>

\* upload_file: api_key = api_key_queue.get() (blocks while the queue is empty).
UploadGet(w) ==
    /\ w_pc[w] = "upload_get"
    /\ key_queue # <<>>
    /\ w_key' = [w_key EXCEPT ![w] = QueueFront(key_queue)]
    /\ key_queue' = QueueRest(key_queue)
    /\ gets' = gets + 1
    /\ w_pc' = [w_pc EXCEPT ![w] = "upload_req"]
    /\ UNCHANGED <<keys, parallel, max_workers, retry, exists, next_task, w_run, w_elapsed, jobs, done,
                   results, pauses, ledgers, retval, main_pc, exvars, toolvars, sessvars>>

\* upload_file: the POST, with the key in its header, is answered (or
\* raises); the key goes back.
UploadRequest(w, a) ==
    /\ w_pc[w] = "upload_req"
    /\ a \in UploadAnswersFor(w_key[w])
    /\ key_queue' = Release(key_queue, w_key[w])
    /\ w_key' = [w_key EXCEPT ![w] = None]
    /\ LET r == [w_run[w] EXCEPT !.upload_key = w_key[w]] IN
         IF a = "200"
           THEN /\ w_pc' = [w_pc EXCEPT ![w] = "wait_get"]
                /\ w_run' = [w_run EXCEPT ![w] = r]
                /\ w_elapsed' = [w_elapsed EXCEPT ![w] = 0]
                /\ UNCHANGED <<jobs, done, results, pauses>>
           ELSE /\ EndJob(w, Failed(r, UploadError(a)))
                /\ UNCHANGED w_elapsed
    /\ UNCHANGED <<keys, gets, parallel, max_workers, retry, exists, next_task, ledgers, retval, main_pc,
                   exvars, toolvars, sessvars>>

\* wait_for_file_processing: api_key = api_key_queue.get().
WaitGet(w) ==
    /\ w_pc[w] = "wait_get"
    /\ key_queue # <<>>
    /\ w_key' = [w_key EXCEPT ![w] = QueueFront(key_queue)]
    /\ key_queue' = QueueRest(key_queue)
    /\ gets' = gets + 1
    /\ w_pc' = [w_pc EXCEPT ![w] = "poll"]
    /\ UNCHANGED <<keys, parallel, max_workers, retry, exists, next_task, w_run, w_elapsed, jobs, done,
                   results, pauses, ledgers, retval, main_pc, exvars, toolvars, sessvars>>

\* One iteration of the while loop: the status request, with the key in its
\* header, is answered a.
Poll(w, a) ==
    /\ w_pc[w] = "poll"
    /\ w_elapsed[w] < max_wait
    /\ a \in PollAnswersFor(w_key[w])
    /\ LET r == [w_run[w] EXCEPT !.poll_key = w_key[w], !.polls = @ + 1,
                                  !.last_poll = a] IN
         CASE PollExit(a) = "return" ->
                /\ key_queue' = Release(key_queue, w_key[w])
                /\ w_key' = [w_key EXCEPT ![w] = None]
                /\ w_pc' = [w_pc EXCEPT ![w] = "gen_get"]
                /\ w_run' = [w_run EXCEPT ![w] = r]
                /\ UNCHANGED <<w_elapsed, jobs, done, results, pauses>>
           [] PollExit(a) = "raise" ->
                /\ key_queue' = Release(key_queue, w_key[w])
                /\ w_key' = [w_key EXCEPT ![w] = None]
                /\ EndJob(w, Failed(r, PollError(a)))
                /\ UNCHANGED w_elapsed
           [] OTHER ->
                /\ w_elapsed' = [w_elapsed EXCEPT ![w] = @ + PollLatency + poll_sleep]
                /\ w_run' = [w_run EXCEPT ![w] = r]
                /\ UNCHANGED <<key_queue, w_key, w_pc, jobs, done, results, pauses>>
    /\ UNCHANGED <<keys, gets, parallel, max_workers, retry, exists, next_task, ledgers, retval, main_pc,
                   exvars, toolvars, sessvars>>

\* The while condition fails: raise Exception("文件处理超时"); the key goes back.
PollTimeout(w) ==
    /\ w_pc[w] = "poll"
    /\ w_elapsed[w] >= max_wait
    /\ key_queue' = Release(key_queue, w_key[w])
    /\ w_key' = [w_key EXCEPT ![w] = None]
    /\ EndJob(w, Failed(w_run[w], "file processing timed out"))
    /\ UNCHANGED <<keys, gets, parallel, max_workers, retry, exists, next_task, w_elapsed, ledgers, retval,
                   main_pc, exvars, toolvars, sessvars>>

\* transcribe_audio: the prompt file is missing or empty; the exception is
\* raised before any key is taken.
GenNoPrompt(w) ==
    /\ w_pc[w] = "gen_get"
    /\ EndJob(w, Failed(w_run[w], "prompt file missing or empty"))
    /\ UNCHANGED <<keys, gets, key_queue, parallel, max_workers, retry, exists, next_task, w_key, w_elapsed,
                   ledgers, retval, main_pc, exvars, toolvars, sessvars>>

\* transcribe_audio: api_key = api_key_queue.get().
GenGet(w) ==
    /\ w_pc[w] = "gen_get"
    /\ key_queue # <<>>
    /\ w_key' = [w_key EXCEPT ![w] = QueueFront(key_queue)]
    /\ key_queue' = QueueRest(key_queue)
    /\ gets' = gets + 1
    /\ w_pc' = [w_pc EXCEPT ![w] = "gen_req"]
    /\ UNCHANGED <<keys, parallel, max_workers, retry, exists, next_task, w_run, w_elapsed, jobs, done,
                   results, pauses, ledgers, retval, main_pc, exvars, toolvars, sessvars>>

\* transcribe_audio: the generateContent POST, with the key in its header, is
\* answered a; the key goes back; process_single_file writes the text.
GenRequest(w, a) ==
    /\ w_pc[w] = "gen_req"
    /\ a \in GenAnswersFor(w_key[w])
    /\ key_queue' = Release(key_queue, w_key[w])
    /\ w_key' = [w_key EXCEPT ![w] = None]
    /\ LET r == [w_run[w] EXCEPT !.gen_key = w_key[w], !.gen_answer = a] IN
         IF GenError(a) # None THEN EndJob(w, Failed(r, GenError(a)))
         ELSE EndJob(w, Succeeded(r, IF a = "text" THEN "text" ELSE ""))
    /\ UNCHANGED <<keys, gets, parallel, max_workers, retry, exists, next_task, w_elapsed, ledgers, retval,
                   main_pc, exvars, toolvars, sessvars>>

(***************************************************************************)
(* process_folder_parallel / process_folder_sequential: results and the    *)
(* failure record.                                                         *)
(***************************************************************************)
\* as_completed yields a completed future; results.append(future.result()).
CollectMut(j) ==
    /\ parallel
    /\ main_pc = "running"
    /\ j \in done
    /\ results' = Append(results, j)
    /\ UNCHANGED <<parallel, max_workers, retry, exists, next_task, w_pc, w_run, w_key, w_elapsed,
                   jobs, done, pauses, ledgers, retval, main_pc, exvars, toolvars, poolvars, sessvars>>
Collect(j) ==
    /\ parallel
    /\ main_pc = "running"
    /\ j \in done
    /\ done' = done \ {j}
    /\ results' = Append(results, j)
    /\ UNCHANGED <<parallel, max_workers, retry, exists, next_task, w_pc, w_run, w_key, w_elapsed,
                   jobs, pauses, ledgers, retval, main_pc, exvars, toolvars, poolvars, sessvars>>

\* failed_files: the entries of results that are no success, in order.
FailedFilesMut(rs) == rs
FailedFiles(rs) == SelectSeq(rs, LAMBDA j : jobs[j] # "success")
SuccessfulCount(rs) == Len(SelectSeq(rs, LAMBDA j : jobs[j] = "success"))

\* save_failed_files_info(failed_files, folder_path): nothing is written for
\* an empty list; otherwise one record with total_failed and the entries.
save_failed_files_info(ls, failed_files) ==
    IF failed_files = <<>> THEN ls
    ELSE Append(ls, [total_failed |-> Len(failed_files), failed_files |-> failed_files])

\* The for loop over the files, or the `with ThreadPoolExecutor` block with
\* its as_completed loop, is over: every task has run and its result is in
\* results.
AllCollectedMut == results # <<>>
AllCollected == Len(results) = NumJobs

\* return successful_count > 0
ReturnValueMut(successful_count) == "True"
ReturnValue(successful_count) == IF successful_count > 0 THEN "True" ELSE "False"

\* The scan of the folder found no audio file (`if not audio_files:`): the
\* run prints a message and returns False before any job is started, and
\* without reaching save_failed_files_info.
NoAudioFiles ==
    /\ ~retry
    /\ main_pc = "running"
    /\ next_task = 1
    /\ retval' = "False"
    /\ main_pc' = "done"
    /\ UNCHANGED <<parallel, max_workers, retry, exists, next_task, w_pc, w_run, w_key, w_elapsed,
                   jobs, done, results, pauses, ledgers, exvars, toolvars, poolvars, sessvars>>

\* Every job has its result: statistics, save_failed_files_info if anything
\* failed, return successful_count > 0 (retry_failed_files returns nothing).
Finalize ==
    /\ main_pc = "running"
    /\ AllCollected
    /\ ledgers' = IF FailedFiles(results) # <<>>
                    THEN save_failed_files_info(ledgers, FailedFiles(results))
                    ELSE ledgers
    /\ retval' = IF retry THEN "None"
                 ELSE ReturnValue(SuccessfulCount(results))
    /\ main_pc' = "done"
    /\ UNCHANGED <<parallel, max_workers, retry, exists, next_task, w_pc, w_run, w_key, w_elapsed,
                   jobs, done, results, pauses, exvars, toolvars, poolvars, sessvars>>

Next ==
    \/ \E s \in Sessions : SessionEnter(s)
    \/ \E s \in Sessions : SessionTimeout(s)
    \/ \E s \in Sessions : SessionExit(s)
    \/ \E w \in Workers : TakeTask(w)
    \/ NoAudioFiles
    \/ RetrySkip
    \/ \E w \in Workers : RetryTake(w)
    \/ \E w \in Workers : UploadGet(w)
    \/ \E w \in Workers, a \in UploadAnswers : UploadRequest(w, a)
    \/ \E w \in Workers : WaitGet(w)
    \/ \E w \in Workers, a \in PollAnswers : Poll(w, a)
    \/ \E w \in Workers : PollTimeout(w)
    \/ \E w \in Workers : GenNoPrompt(w)
    \/ \E w \in Workers : GenGet(w)
    \/ \E w \in Workers, a \in GenAnswers : GenRequest(w, a)
    \/ \E j \in Jobs : Collect(j)
    \/ Finalize

Spec == Init /\ [][Next]_vars

(***************************************************************************)
(* The records of failed_files/ and the tools that read them back.         *)
(***************************************************************************)
\* A failed file is recorded under its full path (failed_file['full_path']).
FullPaths == {"a.mp3", "b.mp3"}

\* f"failed_files_{timestamp}.json": the name save_failed_files_info gives.
RecordName(timestamp) ==
    [stem |-> <<"failed_files_">>, timestamp |-> timestamp, ext |-> ".json"]

\* f"merged_failed_files_{timestamp}.json": the name merge_failed_files gives.
MergedName(timestamp) ==
    [stem |-> <<"merged_", "failed_files_">>, timestamp |-> timestamp, ext |-> ".json"]

\* failed_dir.glob("failed_files_*.json"): the whole name has to match, so it
\* has to begin with failed_files_ and to end with .json.
GlobFailedFiles(dir) ==
    {f \in dir : Head(f.name.stem) = "failed_files_" /\ f.name.ext = ".json"}

\* json_files.sort(key=lambda x: x.stat().st_mtime, reverse=True)
RECURSIVE SortByMtimeDesc(_)
SortByMtimeDesc(fs) ==
    IF fs = {} THEN <<>>
    ELSE LET f == CHOOSE f \in fs : \A g \in fs : f.name.timestamp >= g.name.timestamp
         IN  <<f>> \o SortByMtimeDesc(fs \ {f})

\* list_all_failed_records(): the records of the management tool, newest first.
list_all_failed_records(dir) == SortByMtimeDesc(GlobFailedFiles(dir))

\* list_failed_files(): the records the retry tool offers.
list_failed_files(dir) == GlobFailedFiles(dir)

\* load_failed_files(json_file): data['failed_files'].
load_failed_files(json_file) == json_file.failed_files

\* all_failed_files.extend(record['data']['failed_files']) for every record.
RECURSIVE AllFailedFiles(_)
AllFailedFiles(records) ==
    IF records = <<>> THEN <<>>
    ELSE Head(records).failed_files \o AllFailedFiles(Tail(records))

\* unique_files: the first entry of every full path, in order of appearance.
RECURSIVE UniqueFiles(_, _)
UniqueFiles(all_failed_files, seen) ==
    IF all_failed_files = <<>> THEN <<>>
    ELSE IF Head(all_failed_files) \in seen
         THEN UniqueFiles(Tail(all_failed_files), seen)
         ELSE <<Head(all_failed_files)>>
                \o UniqueFiles(Tail(all_failed_files), seen \cup {Head(all_failed_files)})

\* The lists of failed files a run can hand to save_failed_files_info: one
\* entry per failed job, in the order of the results.
FailedLists ==
    {ff \in UNION {[1..n -> FullPaths] : n \in 1..Cardinality(FullPaths)} :
        \A i, j \in DOMAIN ff : i # j => ff[i] # ff[j]}

\* save_failed_files_info(failed_files, folder_path) at the end of a run that
\* had failures: writes failed_files_<timestamp>.json.
SaveRecord(failed_files) ==
    /\ clock <= MaxRecords
    /\ failed_dir' = failed_dir \cup
          {[name |-> RecordName(clock),
            total_failed |-> Len(failed_files),
            failed_files |-> failed_files,
            merged_from |-> <<>>]}
    /\ clock' = clock + 1
    /\ UNCHANGED <<merge_log, srt_file, srt_prev, srt_runs>>
    /\ UNCHANGED <<exvars, poolvars, sessvars, schedvars>>

\* merge_failed_files(): the user answers confirm to "确认合并？" and delete to
\* "是否删除原始的 ... 个记录？".
merge_failed_files(confirm, delete) ==
    /\ clock <= MaxRecords
    /\ LET records == list_all_failed_records(failed_dir)
           unique_failed_files == UniqueFiles(AllFailedFiles(records), {})
           merged_file == [name |-> MergedName(clock),
                           total_failed |-> Len(unique_failed_files),
                           failed_files |-> unique_failed_files,
                           merged_from |-> [i \in DOMAIN records |-> records[i].name]]
       IN  IF Len(records) <= 1 \/ ~confirm
           THEN UNCHANGED <<failed_dir, clock, merge_log>>
           ELSE /\ failed_dir' =
                     IF delete THEN (failed_dir \ Range(records)) \cup {merged_file}
                     ELSE failed_dir \cup {merged_file}
                /\ clock' = clock + 1
                /\ merge_log' = [done |-> TRUE, deleted |-> delete,
                                 paths |-> Range(AllFailedFiles(records))]
    /\ UNCHANGED <<srt_file, srt_prev, srt_runs>>
    /\ UNCHANGED <<exvars, poolvars, sessvars, schedvars>>

LedgerNext ==
    \/ \E failed_files \in FailedLists : SaveRecord(failed_files)
    \/ \E confirm \in BOOLEAN, delete \in BOOLEAN : merge_failed_files(confirm, delete)

\* The batch program is not running while a tool is used.
Idle ==
    /\ ExecInit /\ PoolInit /\ SessInit /\ SchedInit
    /\ keys = <<>>
    /\ ~retry /\ ~parallel /\ max_workers = 1

InitLedger == Idle /\ LedgerInit /\ SrtIdle

SpecLedger == InitLedger /\ [][LedgerNext]_vars

(***************************************************************************)
(* add_extra_newlines: the subtitle reformatter.                           *)
(***************************************************************************)
\* The characters of a file: a digit, another printable character, a space,
\* carriage return and line feed.
Chars == {"1", "a", " ", "CR", "LF"}
Digits == {"1"}
Whitespace == {" ", "CR", "LF"}
CRLF == <<"CR", "LF">>

\* The contents a subtitle file can have.
SrtFiles == UNION {[1..n -> Chars] : n \in 0..MaxChars}

\* open(file_path, 'r'): universal newlines, "\r\n" and "\r" are read as "\n".
RECURSIVE TranslateNewlines(_)
TranslateNewlines(s) ==
    IF s = <<>> THEN <<>>
    ELSE IF Head(s) = "CR"
         THEN <<"LF">> \o TranslateNewlines(IF Len(s) >= 2 /\ s[2] = "LF"
                                              THEN Tail(Tail(s)) ELSE Tail(s))
         ELSE <<Head(s)>> \o TranslateNewlines(Tail(s))

\* f.readlines(): the lines, each with its "\n"; a last line without "\n" is
\* a line too.
RECURSIVE readlines(_, _)
readlines(text, line) ==
    IF text = <<>> THEN (IF line = <<>> THEN <<>> ELSE <<line>>)
    ELSE IF Head(text) = "LF"
         THEN <<Append(line, "LF")>> \o readlines(Tail(text), <<>>)
         ELSE readlines(Tail(text), Append(line, Head(text)))

\* line.strip(): leading and trailing whitespace removed.
RECURSIVE lstrip(_)
lstrip(line) ==
    IF line # <<>> /\ Head(line) \in Whitespace THEN lstrip(Tail(line)) ELSE line

RECURSIVE rstrip(_)
rstrip(line) ==
    IF line # <<>> /\ line[Len(line)] \in Whitespace
    THEN rstrip(SubSeq(line, 1, Len(line) - 1)) ELSE line

strip(line) == rstrip(lstrip(line))

\* if line.strip() != ''
KeepLineMut(line) == TRUE
KeepLine(line) == strip(line) # <<>>

\* cleaned_lines = [line.strip() for line in raw_lines if line.strip() != '']
cleaned_lines(raw_lines) ==
    LET kept == SelectSeq(raw_lines, KeepLine)
    IN  [i \in DOMAIN kept |-> strip(kept[i])]

\* re.fullmatch(r'\d+', line)
IsNumberLine(line) == line # <<>> /\ \A i \in DOMAIN line : line[i] \in Digits

\* The loop over cleaned_lines that builds blocks; current_block_number is
\* <<>> while it is None (a number line is never empty).
RECURSIVE BuildBlocks(_, _, _)
BuildBlocks(lines, current_block_number, current_block_content) ==
    LET closed == IF current_block_number # <<>>
                    THEN <<[number |-> current_block_number,
                            content |-> current_block_content]>>
                    ELSE <<>>
    IN  IF lines = <<>> THEN closed
        ELSE IF IsNumberLine(Head(lines))
             THEN closed \o BuildBlocks(Tail(lines), Head(lines), <<>>)
             ELSE BuildBlocks(Tail(lines), current_block_number,
                              Append(current_block_content, Head(lines)))

\* Every content line followed by "\r\n".
RECURSIVE ContentParts(_)
ContentParts(content_lines) ==
    IF content_lines = <<>> THEN <<>>
    ELSE Head(content_lines) \o CRLF \o ContentParts(Tail(content_lines))

\* "".join(processed_output_parts): number, "\r\n", the content lines, "\r\n".
RECURSIVE JoinBlocks(_)
JoinBlocks(blocks) ==
    IF blocks = <<>> THEN <<>>
    ELSE Head(blocks).number \o CRLF \o ContentParts(Head(blocks).content) \o CRLF
            \o JoinBlocks(Tail(blocks))

\* final_content, computed from the characters of the file.
final_content(text) ==
    JoinBlocks(BuildBlocks(cleaned_lines(readlines(TranslateNewlines(text), <<>>)),
                           <<>>, <<>>))

\* add_extra_newlines(file_path): read the file, write final_content back
\* (newline='': what is written is what is in final_content).
add_extra_newlines ==
    /\ srt_runs < MaxRuns
    /\ srt_prev' = srt_file
    /\ srt_file' = final_content(srt_file)
    /\ srt_runs' = srt_runs + 1
    /\ UNCHANGED <<failed_dir, clock, merge_log>>
    /\ UNCHANGED <<exvars, poolvars, sessvars, schedvars>>

\* A subtitle file with any content, not reformatted yet.
SrtInit ==
    /\ srt_file \in SrtFiles
    /\ srt_prev = srt_file
    /\ srt_runs = 0

SrtNext == add_extra_newlines

InitSrt == Idle /\ LedgerInit /\ SrtInit

SpecSrt == InitSrt /\ [][SrtNext]_vars


(***************************************************************************)
(* Properties.                                                             *)
(***************************************************************************)
Min(a, b) == IF a < b THEN a ELSE b

\* A thread between a get that returned and the put of its finally block.
WorkerHolds(w) == w_pc[w] \in {"upload_req", "poll", "gen_req"}
SessionHolds(s) == s_pc[s] = "body"
\* A thread blocked in api_key_queue.get().
WorkerWaits(w) == w_pc[w] \in {"upload_get", "wait_get", "gen_get"}

CheckedOut == Cardinality({s \in Sessions : SessionHolds(s)})
              + Cardinality({w \in Workers : WorkerHolds(w)})

KeysDistinct == \A i, k \in DOMAIN keys : i # k => keys[i] # keys[k]

\* C1: pool conservation: in every reachable state the number of credentials
\* in the queue plus the number of credentials held by a caller equals N.
C1_PoolConservation == Len(key_queue) + CheckedOut = Len(keys)

\* C2: session exclusivity: within one job, every status check and the
\* generate request carry the credential the upload request carried.
C2_SessionExclusivity ==
    \A w \in Workers :
        /\ w_run[w].poll_key # None => w_run[w].poll_key = w_run[w].upload_key
        /\ w_run[w].gen_key # None => w_run[w].gen_key = w_run[w].upload_key

\* C3: exactly-once release: a session that obtained a credential and ended
\* (normally or by an exception) has put back exactly what it took.
C3_ExactlyOnceRelease ==
    \A s \in Sessions :
        /\ s_put[s] <= s_got[s]
        /\ s_pc[s] = "ended" => s_put[s] = s_got[s]

\* C4: mutual exclusion: with distinct credentials, no credential is held by
\* two holders (sessions or job steps) at the same time.
C4_MutualExclusion ==
    KeysDistinct =>
        /\ \A s, t \in Sessions :
             SessionHolds(s) /\ SessionHolds(t) /\ s # t => s_key[s] # s_key[t]
        /\ \A w, v \in Workers :
             WorkerHolds(w) /\ WorkerHolds(v) /\ w # v => w_key[w] # w_key[v]
        /\ \A s \in Sessions, w \in Workers :
             SessionHolds(s) /\ WorkerHolds(w) => s_key[s] # w_key[w]
        /\ \A s \in Sessions : SessionHolds(s) => s_key[s] \notin Range(key_queue)
        /\ \A w \in Workers : WorkerHolds(w) => w_key[w] \notin Range(key_queue)

C4_Witness ==
    /\ KeysDistinct
    /\ \E s \in Sessions, w \in Workers : SessionHolds(s) /\ WorkerHolds(w)

AllTransient(h) ==
    \A i \in DOMAIN h : IsResponse(h[i]) /\ h[i].status_code \in TransientStatuses

\* C5: retry ceiling: when every attempt ends in 429, 500 or 503, the call
\* makes exactly 3 HTTP requests and then fails with the retries-exhausted
\* error; no call ever makes a 4th request.
C5_RetryCeiling ==
    /\ Len(ex_hist) <= 3
    /\ (ex_hist # <<>> /\ AllTransient(ex_hist) /\ ex_pc \in {"returned", "raised"})
          => /\ Len(ex_hist) = 3
             /\ ex_pc = "raised"
             /\ ex_error = "Exception(exhausted)"
    /\ (AllTransient(ex_hist) /\ ex_pc = "loop" /\ Len(ex_hist) < 3)
          => ex_attempt = Len(ex_hist)

C5_Witness ==
    /\ ex_pc = "raised"
    /\ Len(ex_hist) = 3
    /\ AllTransient(ex_hist)

\* C6: fail fast: after an attempt answered 400, 403 or 404 the call has made
\* exactly that one request, has slept no backoff and has raised.
C6_FailFast ==
    \A i \in DOMAIN ex_hist :
        (IsResponse(ex_hist[i]) /\ ex_hist[i].status_code \in PermanentStatuses)
            => /\ i = Len(ex_hist)
               /\ Len(ex_sleeps) = i - 1
               /\ ex_pc = "raised"

\* C7: backoff schedule: the delay slept after failed attempt k is 2*k
\* seconds, every failed attempt is followed by one sleep, and the delays
\* never decrease.
C7_BackoffSchedule ==
    /\ \A k \in DOMAIN ex_sleeps : ex_sleeps[k] = 2 * k
    /\ \A k \in DOMAIN ex_sleeps :
         k + 1 \in DOMAIN ex_sleeps => ex_sleeps[k + 1] >= ex_sleeps[k]
    /\ ex_pc = "loop" => Len(ex_sleeps) = Len(ex_hist)

C7_Witness ==
    /\ ex_pc = "loop"
    /\ Len(ex_sleeps) = 3
    /\ AllTransient(ex_hist)

\* C8: no deadlock on the pool: with the jobs alone using the pool, whenever
\* a job step waits for a credential on an empty queue, another step has a
\* credential checked out that it will put back, so the job goes on to its
\* Result.
C8_NoPoolDeadlock ==
    (\A s \in Sessions : s_pc[s] = "out") =>
        \A w \in Workers :
            (WorkerWaits(w) /\ key_queue = <<>>) => CheckedOut > 0

InFlight == {j \in Jobs : j < next_task /\ jobs[j] = "none"}

\* C9: bounded parallelism: in parallel mode at most max_workers jobs are in
\* flight and the jobs have at most min(max_workers, N) credentials checked out.
C9_BoundedParallelism ==
    parallel =>
        /\ Cardinality(InFlight) <= max_workers
        /\ Cardinality({w \in Workers : WorkerHolds(w)}) <= Min(max_workers, Len(keys))
        /\ \A w \in Workers : w_pc[w] # "idle" => w_run[w].job \in InFlight

C9_Witness ==
    /\ parallel
    /\ max_workers < NumJobs
    /\ Cardinality(InFlight) = max_workers
    /\ next_task > max_workers + 1

\* A credential is in the pool, or checked out again by another holder.
BackInPool(k) ==
    \/ k \in Range(key_queue)
    \/ \E s \in Sessions : SessionHolds(s) /\ s_key[s] = k
    \/ \E w \in Workers : WorkerHolds(w) /\ w_key[w] = k

\* C10: remote processing failure: a job whose first status check answered
\* FAILED has a failure Result with the processing-failed reason, never sent
\* the generate request, and its credentials are back in the pool.
C10_RemoteProcessingFailure ==
    \A w \in Workers :
        (w_run[w].polls = 1 /\ w_run[w].last_poll = "FAILED")
            => /\ w_run[w].result = "failure"
               /\ w_run[w].error = "file processing failed"
               /\ w_run[w].gen_key = None
               /\ jobs[w_run[w].job] = "failure"
               /\ BackInPool(w_run[w].upload_key)
               /\ BackInPool(w_run[w].poll_key)

C10_Witness ==
    \E w \in Workers :
        /\ w_run[w].polls = 1
        /\ w_run[w].last_poll = "FAILED"
        /\ w_run[w].result = "failure"
        /\ w_run[w].poll_key \in Range(key_queue)

\* C11: blocked result is distinguished: a job whose generate call answered
\* 200 with a block reason and no candidates has a failure Result whose error
\* detail differs from the one produced for a response that merely has no
\* candidates.
C11_BlockedDistinguished ==
    \A w \in Workers :
        w_run[w].gen_answer = "blocked"
            => /\ w_run[w].result = "failure"
               /\ w_run[w].error # GenError("no_candidates")

\* C12: zero credentials fail fast: when no credential is configured the
\* process has exited at pool initialisation, no queue holds anything, no
\* session and no executor call was entered and no job was ever started.
C12_ZeroCredentialsFailFast ==
    keys = <<>> =>
        /\ main_pc = "exited"
        /\ key_queue = <<>>
        /\ next_task = 1
        /\ \A w \in Workers : w_pc[w] = "idle" /\ w_run[w] = NewRun
        /\ \A j \in Jobs : jobs[j] = "none"
        /\ results = <<>> /\ ledgers = <<>> /\ retval = "none"
        /\ \A s \in Sessions : s_pc[s] = "out" /\ s_got[s] = 0
        /\ ex_pc = "idle" /\ ex_hist = <<>>

C12_Witness ==
    /\ keys = <<>>
    /\ key_queue = <<>>
    /\ main_pc = "exited"

\* The run ended at `if not audio_files:`: its list of jobs was empty.
FoundNoFiles == ~retry /\ main_pc = "done" /\ next_task = 1

C14_IdempotentRerun ==
    (/\ retry
     /\ \A j \in Jobs : exists[j]
     /\ \A j \in Jobs : jobs[j] # "failure"
     /\ main_pc \in {"done", "raised"})
        => /\ main_pc = "done"
           /\ \A j \in Jobs : jobs[j] = "success"
           /\ ledgers = <<>>

\* C15: bounded acquisition: an acquisition that finds the pool empty either
\* is served by a credential that a holder will release, or gives up after a
\* timeout of 5 seconds per credential; this holds for sessions and for each
\* workflow step, so that no acquisition waits forever.
C15_BoundedAcquisition ==
    /\ \A s \in Sessions :
         (ManagerExists /\ s_pc[s] = "out" /\ key_queue = <<>>)
            => \/ CheckedOut > 0
               \/ SessionGetTimeout = <<5 * Len(keys)>>
    /\ \A w \in Workers :
         (WorkerWaits(w) /\ key_queue = <<>>)
            => \/ CheckedOut > 0
               \/ StepGetTimeout # <<>>

\* C16: failure record content: a failure record is written only when the run
\* ends, and then if and only if at least one job failed; it holds exactly
\* one entry per failed job, no entry of a successful job, and its
\* total_failed is the number of its entries.
C16_LedgerContent ==
    /\ Len(ledgers) <= 1
    /\ main_pc # "done" => ledgers = <<>>
    /\ main_pc = "done" =>
          /\ ledgers # <<>> <=> \E j \in Jobs : jobs[j] = "failure"
          /\ ledgers # <<>> =>
                LET entries == ledgers[1].failed_files IN
                  /\ Range(entries) = {j \in Jobs : jobs[j] = "failure"}
                  /\ \A i, k \in DOMAIN entries : i # k => entries[i] # entries[k]
                  /\ \A i \in DOMAIN entries : jobs[entries[i]] # "success"
                  /\ ledgers[1].total_failed = Len(entries)

C16_Witness ==
    /\ main_pc = "done"
    /\ ledgers # <<>>
    /\ ledgers[1].total_failed = 1
    /\ \E j \in Jobs : jobs[j] = "success"

\* An attempt answered with a success (2xx) status.
IsSuccess(o) == IsResponse(o) /\ o.status_code >= 200 /\ o.status_code < 300

\* C17: unlisted non-success statuses are fatal: after an attempt answered
\* with a non-success status outside 429/500/503 and outside 400/403/404
\* (401, 502) the call has made no further request, has slept no backoff for
\* it and has raised.
C17_UnlistedStatusFatal ==
    \A i \in DOMAIN ex_hist :
        (/\ IsResponse(ex_hist[i])
         /\ ~IsSuccess(ex_hist[i])
         /\ ex_hist[i].status_code \notin TransientStatuses \cup PermanentStatuses)
            => /\ i = Len(ex_hist)
               /\ Len(ex_sleeps) = i - 1
               /\ ex_pc = "raised"

\* C18: success stops the retry loop: the attempt answered with a success
\* status is the last request of the call, the call has returned, and it made
\* exactly k requests and k-1 sleeps when that attempt was the k-th; a call
\* returns only on such an answer.
C18_SuccessStopsLoop ==
    /\ \A i \in DOMAIN ex_hist :
         IsSuccess(ex_hist[i])
            => /\ i = Len(ex_hist)
               /\ i = ex_attempt + 1
               /\ Len(ex_sent) = i
               /\ Len(ex_sleeps) = i - 1
               /\ ex_pc = "returned"
    /\ ex_pc = "returned" =>
         /\ ex_hist # <<>>
         /\ IsSuccess(ex_hist[Len(ex_hist)])

C18_Witness ==
    /\ ex_pc = "returned"
    /\ Len(ex_hist) = 3
    /\ AllTransient(SubSeq(ex_hist, 1, 2))
    /\ Len(ex_sleeps) = 2

\* C19: network failures are transient: an attempt that ended in a network
\* exception is followed by a sleep of 2 * (its number) seconds and, unless
\* it was the 3rd attempt, by a retry; after the 3rd the call fails with the
\* retries-exhausted error, as for 429/500/503.
C19_NetworkTransient ==
    \A i \in DOMAIN ex_hist :
        ~IsResponse(ex_hist[i]) =>
            /\ i <= max_attempts
            /\ Len(ex_sleeps) >= i
            /\ ex_sleeps[i] = 2 * i
            /\ ex_attempt >= i
            /\ (i = Len(ex_hist) /\ i < max_attempts) => ex_pc = "loop"
            /\ (i = Len(ex_hist) /\ i = max_attempts)
                  => \/ ex_pc = "loop"
                     \/ ex_pc = "raised" /\ ex_error = "Exception(exhausted)"
            /\ AttemptExit(ex_hist[i]) = AttemptExit(Response(429))

C19_Witness ==
    /\ ex_pc = "raised"
    /\ Len(ex_hist) = 3
    /\ \A i \in DOMAIN ex_hist : ~IsResponse(ex_hist[i])
    /\ ex_sleeps = <<2, 4, 6>>

\* C20: the executor leaves the pool alone: during and after a call of
\* execute_request the queue holds what was loaded at start, and every
\* request of the call carried the credential that was passed in.
C20_ExecutorLeavesPool ==
    /\ key_queue = LoadKeys(<<>>, keys)
    /\ Len(ex_sent) = Len(ex_hist)
    /\ \A i \in DOMAIN ex_sent : ex_sent[i] = ex_key

C20_Witness ==
    /\ ex_pc \in {"returned", "raised"}
    /\ Len(ex_sent) >= 2
    /\ Len(keys) = 2
    /\ ex_key = keys[2]
    /\ ex_key # QueueFront(key_queue)

\* C21: step order within a job: a status check is made only after the
\* upload request succeeded, the generate request only after a status check
\* reported ACTIVE; a failed upload is followed by no status check and no
\* generate request, a wait that ended in FAILED or in the timeout by no
\* generate request.
C21_StepOrder ==
    \A w \in Workers :
        LET r == w_run[w] IN
          /\ (r.polls > 0 \/ w_pc[w] \in {"wait_get", "poll"})
                => r.upload_key # None /\ r.error # "upload failed"
          /\ (r.gen_key # None \/ w_pc[w] \in {"gen_get", "gen_req"})
                => /\ r.upload_key # None
                   /\ r.polls > 0
                   /\ r.last_poll = "ACTIVE"
          /\ r.error = "upload failed"
                => r.polls = 0 /\ r.poll_key = None /\ r.gen_key = None
          /\ (r.last_poll = "FAILED" \/ r.error = "file processing timed out")
                => r.gen_key = None /\ r.gen_answer = None

C21_Witness ==
    \E w \in Workers :
        /\ w_run[w].gen_key # None
        /\ w_run[w].polls >= 2
        /\ w_run[w].result = "success"

\* The wait of the job of thread w is over: status checks were made and the
\* thread is past the loop.
WaitOver(w) == w_run[w].polls > 0 /\ w_pc[w] # "poll"

\* C22: polling outcome and termination: a wait that is over ended in one of
\* three ways: the last status check reported ACTIVE and the job went on,
\* the last status check reported FAILED and the job failed with the
\* processing-failed error, or the 300 s ceiling elapsed and the job failed
\* with the timeout error; every status check but the last is followed by
\* a wait of 10 s, so that no wait makes more than 31 status checks.
C22_PollingOutcome ==
    \A w \in Workers :
        LET r == w_run[w] IN
          /\ r.polls * poll_sleep <= max_wait + poll_sleep
          /\ WaitOver(w) =>
                \/ r.last_poll = "ACTIVE" /\ r.error # "file processing timed out"
                                          /\ r.error # "file processing failed"
                \/ r.last_poll = "FAILED" /\ r.result = "failure"
                                          /\ r.error = "file processing failed"
                \/ /\ r.last_poll \notin {"ACTIVE", "FAILED"}
                   /\ w_elapsed[w] >= max_wait
                   /\ r.result = "failure"
                   /\ r.error = "file processing timed out"

\* C23: status-check errors are bounded by time, not by attempts: after a
\* non-200 answer to a status check the loop goes on, whatever the number of
\* such answers, and it ends only by the 300 s ceiling; when it has ended
\* the credential that the status checks carried is back in the pool.
C23_PollErrorsTimeBounded ==
    \A w \in Workers :
        LET r == w_run[w] IN
          (r.polls > 0 /\ r.last_poll = "non200") =>
              \/ w_pc[w] = "poll"
              \/ /\ w_elapsed[w] >= max_wait
                 /\ r.result = "failure"
                 /\ r.error = "file processing timed out"
                 /\ BackInPool(r.poll_key)

C25_ReleaseWhateverValue ==
    \A s \in Sessions :
        (/\ s_pc[s] = "ended"
         /\ s_got[s] > 0
         /\ CheckedOut = 0
         /\ next_task = 1)
            => /\ Len(key_queue) = Len(keys)
               /\ s_key[s] \in Range(key_queue)

C27_NonEmptyText ==
    \A w \in Workers :
        LET r == w_run[w] IN
          /\ r.result = "success" =>
                r.gen_answer = "text" /\ r.output = "text"
          /\ r.gen_answer \in {"empty_text", "no_candidates", "blocked"} =>
                r.result = "failure" /\ r.output = None

\* C28: fatal and exhausted failures are distinguishable: a call that raised
\* after an attempt answered 400, 403 or 404 raised an error of another kind
\* than the retries-exhausted error, and a call that raised after 3
\* transient answers raised the retries-exhausted error, which carries the
\* last transient error.
C28_FatalVsExhausted ==
    /\ (/\ ex_pc = "raised"
         /\ \E i \in DOMAIN ex_hist :
               IsResponse(ex_hist[i]) /\ ex_hist[i].status_code \in PermanentStatuses)
           => ex_error # "Exception(exhausted)"
    /\ (ex_pc = "raised" /\ ex_hist # <<>> /\ AllTransient(ex_hist))
           => /\ ex_error = "Exception(exhausted)"
              /\ ex_last = "Exception(transient)"

\* C29: single ledger writer: in parallel mode the failure record is written
\* at most once, and when it is written every worker thread has finished,
\* every job has its Result and every Result has been collected; it changes
\* in no step of a worker.
C29_SingleLedgerWriter ==
    parallel =>
        /\ Len(ledgers) <= 1
        /\ ledgers # <<>> =>
              /\ main_pc = "done"
              /\ \A w \in Workers : w_pc[w] = "idle"
              /\ \A j \in Jobs : jobs[j] # "none"
              /\ done = {}
              /\ Len(results) = NumJobs

C29_Witness ==
    /\ parallel
    /\ max_workers = MaxWorkers
    /\ ledgers # <<>>
    /\ ledgers[1].total_failed = NumJobs

\* C30: round-robin hand-out: in a run whose acquisitions never overlap (one
\* thread, no session) and in which every credential taken so far was put
\* back, the k-th acquisition returned the credential at position
\* (k-1) mod N of the load order, and the next one will return position
\* k mod N: N consecutive acquisitions go through all N credentials.
C30_RoundRobin ==
    (/\ ~parallel
     /\ \A s \in Sessions : s_got[s] = 0
     /\ Len(key_queue) + CheckedOut = Len(keys))
        => /\ \A w \in Workers :
                WorkerHolds(w) => w_key[w] = keys[((gets - 1) % Len(keys)) + 1]
           /\ (CheckedOut = 0 /\ key_queue # <<>>)
                => QueueFront(key_queue) = keys[(gets % Len(keys)) + 1]

C30_Witness ==
    /\ ~parallel
    /\ \A s \in Sessions : s_got[s] = 0
    /\ Len(key_queue) + CheckedOut = Len(keys)
    /\ Len(keys) = MaxKeys
    /\ KeysDistinct
    /\ gets = Len(keys) + 1
    /\ WorkerHolds(1)
    /\ w_key[1] = keys[1]

\* Number of attempts of history h that ended in 429/500/503 or in a network
\* exception.
TransientOrNetwork(h) ==
    Cardinality({i \in DOMAIN h :
        \/ ~IsResponse(h[i])
        \/ IsResponse(h[i]) /\ h[i].status_code \in TransientStatuses})

\* C31: backoff after the last attempt: the number of backoff sleeps of a
\* call equals the number of its attempts that ended in a transient status
\* or a network failure, the final attempt included; a call that raised the
\* retries-exhausted error has slept 2, 4 and 6 seconds before it.
C31_BackoffAfterLastAttempt ==
    /\ Len(ex_sleeps) = TransientOrNetwork(ex_hist)
    /\ (ex_pc = "raised" /\ ex_error = "Exception(exhausted)")
          => ex_sleeps = <<2, 4, 6>>

\* The part of C31 that holds: a call whose attempts all ended in a transient
\* status or a network failure.
C31_OnTransientHistories ==
    (\A i \in DOMAIN ex_hist : TransientOrNetwork(<<ex_hist[i]>>) = 1)
        => C31_BackoffAfterLastAttempt

\* C32: return value of a run: process_folder, sequential or parallel,
\* returns True if and only if at least one job succeeded; a run in which
\* every job failed returns False and has written a failure record, and a
\* run that found no audio file returns the same False without a record.
C32_ReturnValue ==
    ~retry =>
        /\ main_pc = "running" => retval = "none"
        /\ main_pc = "done" =>
              /\ retval \in {"True", "False"}
              /\ retval = "True" <=> \E j \in Jobs : jobs[j] = "success"
              /\ (\A j \in Jobs : jobs[j] = "failure")
                    => retval = "False" /\ ledgers # <<>>
              /\ FoundNoFiles => retval = "False" /\ ledgers = <<>>

C32_Witness ==
    /\ ~retry
    /\ main_pc = "done"
    /\ \A j \in Jobs : jobs[j] = "failure"
    /\ retval = "False"
    /\ ledgers # <<>>

\* The full paths listed in the records a lister finds.
ListedPaths(found) == UNION {Range(load_failed_files(f)) : f \in found}

\* C33: failed files stay reachable after a merge: once merge_failed_files
\* has written the merged record and deleted the original records, every
\* failed file an original record listed is listed in a record that
\* list_all_failed_records and list_failed_files find.
C33_MergeKeepsFailedFiles ==
    (merge_log.done /\ merge_log.deleted) =>
        /\ merge_log.paths \subseteq ListedPaths(Range(list_all_failed_records(failed_dir)))
        /\ merge_log.paths \subseteq ListedPaths(list_failed_files(failed_dir))

\* What does hold: the merged record on disk lists every one of them.
C33_MergedRecordComplete ==
    (merge_log.done /\ merge_log.deleted) =>
        merge_log.paths \subseteq ListedPaths({f \in failed_dir : f.merged_from # <<>>})

\* The non-blank lines of a file, stripped, in order.
NonBlankLines(text) == cleaned_lines(readlines(TranslateNewlines(text), <<>>))

\* Every line followed by one line break, and one more line break after the
\* last line of a block, that is before a number line and at the end.
RECURSIVE KeptLines(_)
KeptLines(lines) ==
    IF lines = <<>> THEN <<>>
    ELSE Head(lines) \o CRLF
           \o (IF Len(lines) = 1 \/ IsNumberLine(lines[2]) THEN CRLF ELSE <<>>)
           \o KeptLines(Tail(lines))

\* C34: subtitle reformatting keeps every line: after add_extra_newlines the
\* file holds every non-blank line of the input, stripped, in the input
\* order, each followed by one line break, with one more blank line after
\* the last content line of each numbered block; no non-blank line is dropped.
C34_KeepsEveryLine ==
    srt_runs = 1 =>
        /\ NonBlankLines(srt_file) = NonBlankLines(srt_prev)
        /\ srt_file = KeptLines(NonBlankLines(srt_prev))

\* What does hold: the same for a file whose first non-blank line is a
\* number line.
C34_FromFirstNumberLine ==
    (/\ NonBlankLines(srt_prev) # <<>>
     /\ IsNumberLine(Head(NonBlankLines(srt_prev))))
        => C34_KeepsEveryLine

\* C35: subtitle reformatting is idempotent: add_extra_newlines applied to a
\* file it has already processed leaves the content of the file unchanged.
C35_Idempotent ==
    srt_runs >= 2 => srt_file = srt_prev

C35_Witness ==
    /\ srt_runs = MaxRuns
    /\ srt_file = srt_prev
    /\ \E i, j \in DOMAIN srt_file :
          i < j /\ srt_file[i] \in Digits /\ srt_file[j] = "a"

====
